---- MODULE Spec2Model ----
(***************************************************************************)
(* A model of the EnumDisplay derive macro (enum-display-macro/src/lib.rs) *)
(* and of the Display implementation it emits.                             *)
(*                                                                         *)
(* Text is a sequence of atoms.  An atom is one character ("{", "}", "0",  *)
(* "A", "-", ...) or one indivisible word of a format string ("variant",   *)
(* a field name, "_unnamed_"): a word atom is neither a brace, a digit nor *)
(* white space, which is all the macro's regular expression and the host   *)
(* formatting syntax ask of the characters of a word.                      *)
(***************************************************************************)
EXTENDS Naturals, Sequences, FiniteSets, TLC

(***************************************************************************)
(* Bounds of the model.                                                    *)
(***************************************************************************)
\* variants per modelled enum
MaxVariants == 2
\* entries in the list of one annotation
MaxNested == 2
\* annotations on one declaration or one variant
MaxAttrs == 2
\* atoms in a format string enumerated atom by atom
MaxFmtLen == 5

(***************************************************************************)
(* Characters.                                                             *)
(***************************************************************************)
Digits == <<"0", "1", "2", "3", "4", "5", "6", "7", "8", "9">>

IsDigit(c) == \E d \in 1..10 : Digits[d] = c

IsSpace(c) == c \in {" ", "\t", "\n"}

IsBrace(c) == c \in {"{", "}"}

\* The first atom of an identifier: a word atom or a letter.
IsIdentStart(c) == ~IsDigit(c) /\ ~IsSpace(c) /\ ~IsBrace(c) /\ c \notin {":", "-"}

IsIdentContinue(c) == IsIdentStart(c) \/ IsDigit(c)

IsUpper(c) == c \in {"A", "B", "C", "D"}

IsLower(c) == c \in {"a", "b", "c", "d"}

ToUpper(c) ==
    CASE c = "a" -> "A" [] c = "b" -> "B" [] c = "c" -> "C" [] c = "d" -> "D"
      [] OTHER -> c

ToLower(c) ==
    CASE c = "A" -> "a" [] c = "B" -> "b" [] c = "C" -> "c" [] c = "D" -> "d"
      [] OTHER -> c

\* The value of a digit atom.
DigitValue(c) == (CHOOSE d \in 1..10 : Digits[d] = c) - 1

\* The number a run of digits denotes (leading zeros allowed).
RECURSIVE DecimalValue(_)
DecimalValue(ds) ==
    IF ds = <<>> THEN 0
    ELSE 10 * DecimalValue(SubSeq(ds, 1, Len(ds) - 1)) + DigitValue(ds[Len(ds)])

\* The digits a number is printed with: how Rust's `{i}` prints a usize.
RECURSIVE Decimal(_)
Decimal(i) ==
    IF i < 10 THEN <<Digits[i + 1]>>
    ELSE Decimal(i \div 10) \o <<Digits[(i % 10) + 1]>>

\* Option<String>: the string is a sequence of atoms.
None == [some |-> FALSE, val |-> <<>>]

\* Option<Case>: the case is named by its name.
NoCase == [some |-> FALSE, val |-> ""]

Some(v) == [some |-> TRUE, val |-> v]

(***************************************************************************)
(* Case conversion: convert_case's to_case on an identifier of letters.    *)
(***************************************************************************)
CaseNames ==
    {"Upper", "Lower", "Title", "Toggle", "Camel", "Pascal", "UpperCamel",
     "Snake", "UpperSnake", "ScreamingSnake", "Kebab", "Cobol", "UpperKebab",
     "Train", "Flat", "UpperFlat", "Alternating"}

\* Whether a word ends after position e of s: a lower-case letter before an
\* upper-case one, or the last capital of an acronym.
IsBoundary(s, e) ==
    \/ e = Len(s)
    \/ IsLower(s[e]) /\ IsUpper(s[e + 1])
    \/ e + 2 <= Len(s) /\ IsUpper(s[e]) /\ IsUpper(s[e + 1]) /\ IsLower(s[e + 2])

RECURSIVE WordEnd(_, _)
WordEnd(s, e) == IF IsBoundary(s, e) THEN e ELSE WordEnd(s, e + 1)

RECURSIVE SplitWords(_)
SplitWords(s) ==
    IF s = <<>> THEN <<>>
    ELSE LET e == WordEnd(s, 1)
         IN  <<SubSeq(s, 1, e)>> \o SplitWords(SubSeq(s, e + 1, Len(s)))

UpperWord(w) == [i \in 1..Len(w) |-> ToUpper(w[i])]

LowerWord(w) == [i \in 1..Len(w) |-> ToLower(w[i])]

CapitalWord(w) == [i \in 1..Len(w) |-> IF i = 1 THEN ToUpper(w[i]) ELSE ToLower(w[i])]

ToggleWord(w) == [i \in 1..Len(w) |-> IF i = 1 THEN ToLower(w[i]) ELSE ToUpper(w[i])]

RECURSIVE LettersBefore(_, _)
LettersBefore(words, k) ==
    IF k <= 1 THEN 0 ELSE Len(words[k - 1]) + LettersBefore(words, k - 1)

\* aLtErNaTiNg: the letters alternate from one word into the next.
AlternatingWord(words, k) ==
    LET w == words[k]
        off == LettersBefore(words, k)
    IN  [i \in 1..Len(w) |->
            IF (off + i) % 2 = 1 THEN ToLower(w[i]) ELSE ToUpper(w[i])]

PatternWord(case, words, k) ==
    CASE case \in {"Upper", "UpperSnake", "ScreamingSnake", "Cobol", "UpperKebab",
                   "UpperFlat"} -> UpperWord(words[k])
      [] case \in {"Lower", "Snake", "Kebab", "Flat"} -> LowerWord(words[k])
      [] case \in {"Title", "Pascal", "UpperCamel", "Train"} -> CapitalWord(words[k])
      [] case = "Toggle" -> ToggleWord(words[k])
      [] case = "Camel" ->
            IF k = 1 THEN LowerWord(words[k]) ELSE CapitalWord(words[k])
      [] case = "Alternating" -> AlternatingWord(words, k)

Delimiter(case) ==
    CASE case \in {"Upper", "Lower", "Title", "Toggle", "Alternating"} -> <<" ">>
      [] case \in {"Snake", "UpperSnake", "ScreamingSnake"} -> <<"_">>
      [] case \in {"Kebab", "Cobol", "UpperKebab", "Train"} -> <<"-">>
      [] case \in {"Camel", "Pascal", "UpperCamel", "Flat", "UpperFlat"} -> <<>>

RECURSIVE JoinWords(_, _, _)
JoinWords(case, words, k) ==
    IF k > Len(words) THEN <<>>
    ELSE (IF k = 1 THEN <<>> ELSE Delimiter(case))
            \o PatternWord(case, words, k) \o JoinWords(case, words, k + 1)

ToCase(ident, case) == JoinWords(case, SplitWords(ident), 1)

(***************************************************************************)
(* EnumAttrs.                                                              *)
(***************************************************************************)
\* The result of a function that may panic.
Ok(v) == [panicked |-> FALSE, message |-> <<>>, value |-> v]

Panic(msg, dflt) == [panicked |-> TRUE, message |-> msg, value |-> dflt]

UnwrapMessage == <<"called Result::unwrap on an Err value">>

\* parse_case_name that falls back to a case instead of panicking.
parse_case_name_fallback(case_name) ==
    IF case_name \in CaseNames THEN [panicked |-> FALSE, message |-> <<>>, value |-> case_name]
    ELSE [panicked |-> FALSE, message |-> <<>>, value |-> "Lower"]

parse_case_name(case_name) ==
    IF case_name \in CaseNames
    THEN Ok(case_name)
    ELSE Panic(<<"Unrecognized case name: ", case_name>>, "")

\* The loop that assigns case_transform only while it is None.
RECURSIVE EnumNestedLoop_first_wins(_, _, _)
EnumNestedLoop_first_wins(nested, i, acc) ==
    IF acc.panicked \/ i > Len(nested) THEN acc
    ELSE LET n == nested[i]
         IN  IF n.kind = "namevalue" /\ n.key = "case" /\ n.str /\ ~acc.value.some
             THEN LET c == parse_case_name(n.value)
                  IN  EnumNestedLoop_first_wins(nested, i + 1,
                        IF c.panicked THEN Panic(c.message, acc.value)
                        ELSE Ok(Some(c.value)))
             ELSE EnumNestedLoop_first_wins(nested, i + 1, acc)

\* The loop over the entries of one enum_display(...) list; acc is the
\* case_transform so far, or the panic that ended the loop.
RECURSIVE EnumNestedLoop(_, _, _)
EnumNestedLoop(nested, i, acc) ==
    IF acc.panicked \/ i > Len(nested) THEN acc
    ELSE LET n == nested[i]
         IN  IF n.kind = "namevalue" /\ n.key = "case" /\ n.str
             THEN LET c == parse_case_name(n.value)
                  IN  EnumNestedLoop(nested, i + 1,
                        IF c.panicked THEN Panic(c.message, acc.value)
                        ELSE Ok(Some(c.value)))
             ELSE EnumNestedLoop(nested, i + 1, acc)

RECURSIVE EnumAttrsLoop(_, _, _)
EnumAttrsLoop(attrs, i, acc) ==
    IF acc.panicked \/ i > Len(attrs) THEN acc
    ELSE LET attr == attrs[i]
         IN  IF attr.path = "enum_display"
             THEN IF attr.meta = "error"
                  THEN Panic(UnwrapMessage, acc.value)
                  ELSE IF attr.meta = "list"
                       THEN EnumAttrsLoop(attrs, i + 1,
                                          EnumNestedLoop(attr.nested, 1, acc))
                       ELSE EnumAttrsLoop(attrs, i + 1, acc)
             ELSE EnumAttrsLoop(attrs, i + 1, acc)

\* EnumAttrs::from_attrs: the value is the field case_transform.
EnumAttrs_from_attrs(attrs) == EnumAttrsLoop(attrs, 1, Ok(NoCase))

\* transform_case that forgets the selector.
transform_case_identity(case_transform, ident) == ident

transform_case(case_transform, ident) ==
    IF case_transform.some THEN ToCase(ident, case_transform.val) ELSE ident

(***************************************************************************)
(* VariantAttrs.                                                           *)
(***************************************************************************)
RECURSIVE SkipSpaces(_, _)
SkipSpaces(s, p) ==
    IF p <= Len(s) /\ IsSpace(s[p]) THEN SkipSpaces(s, p + 1) ELSE p

RECURSIVE SkipDigits(_, _)
SkipDigits(s, p) ==
    IF p <= Len(s) /\ IsDigit(s[p]) THEN SkipDigits(s, p + 1) ELSE p

\* The position of the first "}" at or after p, 0 when there is none.
RECURSIVE FindClose(_, _)
FindClose(s, p) ==
    IF p > Len(s) THEN 0
    ELSE IF s[p] = "}" THEN p ELSE FindClose(s, p + 1)

\* The regular expression of translate_numeric_placeholders matched at
\* position p: an open brace, white space, digits (idx), white space, any
\* atoms but a close brace (fmt_spec), a close brace.
RegexMatchAt(s, p) ==
    LET a == SkipSpaces(s, p + 1)
        b == SkipDigits(s, a)
        c == SkipSpaces(s, b)
        e == FindClose(s, c)
    IN  IF s[p] = "{" /\ b > a /\ e > 0
        THEN [ok |-> TRUE, idx |-> SubSeq(s, a, b - 1),
              fmt_spec |-> SubSeq(s, c, e - 1), end |-> e]
        ELSE [ok |-> FALSE, idx |-> <<>>, fmt_spec |-> <<>>, end |-> 0]

\* The replacement closure with the second capture group left out.
Replacement_without_spec(idx, fmt_spec) == <<"{", "_unnamed_">> \o idx \o <<"}">>

\* The replacement closure: format!("{{_unnamed_{idx}{fmt_spec}}}").
Replacement(idx, fmt_spec) == <<"{", "_unnamed_">> \o idx \o fmt_spec \o <<"}">>

\* Regex::replace_all: the leftmost matches, none overlapping another.
RECURSIVE ReplaceAll(_, _)
ReplaceAll(s, p) ==
    IF p > Len(s) THEN <<>>
    ELSE LET m == RegexMatchAt(s, p)
         IN  IF m.ok
             THEN Replacement(m.idx, m.fmt_spec) \o ReplaceAll(s, m.end + 1)
             ELSE <<s[p]>> \o ReplaceAll(s, p + 1)

translate_numeric_placeholders(fmt) == ReplaceAll(fmt, 1)

\* What the first entry of a display(...) list sets format to (None: nothing).
FirstNestedFormat(first_nested) ==
    CASE first_nested.kind = "lit" /\ first_nested.str ->
            Some(translate_numeric_placeholders(first_nested.value))
      [] first_nested.kind = "namevalue" /\ first_nested.str ->
            Some(translate_numeric_placeholders(first_nested.value))
      [] OTHER -> None

RECURSIVE VariantAttrsLoop(_, _, _)
VariantAttrsLoop(attrs, i, acc) ==
    IF acc.panicked \/ i > Len(attrs) THEN acc
    ELSE LET attr == attrs[i]
         IN  IF attr.path = "display"
             THEN IF attr.meta = "error"
                  THEN Panic(UnwrapMessage, acc.value)
                  ELSE IF attr.meta = "list" /\ Len(attr.nested) > 0
                            /\ FirstNestedFormat(attr.nested[1]).some
                       THEN VariantAttrsLoop(attrs, i + 1,
                                Ok(FirstNestedFormat(attr.nested[1])))
                       ELSE VariantAttrsLoop(attrs, i + 1, acc)
             ELSE VariantAttrsLoop(attrs, i + 1, acc)

\* VariantAttrs::from_attrs: the value is the field format.
VariantAttrs_from_attrs(attrs) == VariantAttrsLoop(attrs, 1, Ok(None))

(***************************************************************************)
(* The host formatting syntax, as format!(<literal>) reads a literal with  *)
(* no explicit arguments: "{{" and "}}" are the two braces, "{name}" is an *)
(* argument captured from the scope, and an argument given by position or  *)
(* left empty has nothing to refer to.                                     *)
(***************************************************************************)
RECURSIVE SkipIdent(_, _)
SkipIdent(s, p) ==
    IF p <= Len(s) /\ IsIdentContinue(s[p]) THEN SkipIdent(s, p + 1) ELSE p

Lit(c) == [kind |-> "lit", name |-> <<c>>]

Arg(name) == [kind |-> "arg", name |-> name]

ParseError == [ok |-> FALSE, pieces |-> <<>>]

\* The pieces of s from position p on.  (A format spec after the argument,
\* `{name:spec}`, is outside the formats modelled: no format has a colon.)
RECURSIVE ParseFmt(_, _)
ParseFmt(s, p) ==
    IF p > Len(s) THEN [ok |-> TRUE, pieces |-> <<>>]
    ELSE IF s[p] = "{" /\ p < Len(s) /\ s[p + 1] = "{"
    THEN LET r == ParseFmt(s, p + 2)
         IN  [ok |-> r.ok, pieces |-> <<Lit("{")>> \o r.pieces]
    ELSE IF s[p] = "}" /\ p < Len(s) /\ s[p + 1] = "}"
    THEN LET r == ParseFmt(s, p + 2)
         IN  [ok |-> r.ok, pieces |-> <<Lit("}")>> \o r.pieces]
    ELSE IF s[p] = "}" THEN ParseError
    ELSE IF s[p] = "{"
    THEN LET a == p + 1
             b == IF a <= Len(s) /\ IsIdentStart(s[a]) THEN SkipIdent(s, a)
                  ELSE SkipDigits(s, a)
             e == SkipSpaces(s, b)
         IN  IF e <= Len(s) /\ s[e] = "}"
             THEN LET r == ParseFmt(s, e + 1)
                  IN  [ok |-> r.ok, pieces |-> <<Arg(SubSeq(s, a, b - 1))>> \o r.pieces]
             ELSE ParseError
    ELSE LET r == ParseFmt(s, p + 1)
         IN  [ok |-> r.ok, pieces |-> <<Lit(s[p])>> \o r.pieces]

\* Whether an argument is named (and so captured from the scope).
IsNamedArg(piece) ==
    piece.kind = "arg" /\ piece.name # <<>> /\ IsIdentStart(piece.name[1])

\* Whether an argument is given by position.
IsIndexArg(piece) ==
    piece.kind = "arg" /\ piece.name # <<>> /\ IsDigit(piece.name[1])

(***************************************************************************)
(* The intermediate variants.                                              *)
(***************************************************************************)
VariantInfo(ident, ident_transformed, format) ==
    [ident |-> ident, ident_transformed |-> ident_transformed, format |-> format]

\* A name of the generated code, as atoms.
Name(field) == <<field>>

\* from_fields_named that loses the first field.
NamedVariantIR_from_fields_named_tail(fields, info) ==
    [shape |-> "named", info |-> info,
     fields |-> [i \in 1..(Len(fields.names) - 1) |-> <<fields.names[i + 1]>>]]

NamedVariantIR_from_fields_named(fields, info) ==
    [shape |-> "named", info |-> info,
     fields |-> [i \in 1..Len(fields.names) |-> Name(fields.names[i])]]

UnnamedVariantIR_from_fields_unnamed(fields, info) ==
    [shape |-> "unnamed", info |-> info,
     fields |-> [i \in 1..fields.count |-> <<"_unnamed_">> \o Decimal(i - 1)]]

UnitVariantIR_new(info) == [shape |-> "unit", info |-> info, fields |-> <<>>]

\* VariantIR::from_variant; it panics when VariantAttrs::from_attrs does.
VariantIR_from_variant(variant, case_transform) ==
    LET attrs == VariantAttrs_from_attrs(variant.attrs)
        info == VariantInfo(variant.ident,
                            transform_case(case_transform, variant.ident),
                            attrs.value)
        ir == CASE variant.fields.shape = "named" ->
                        NamedVariantIR_from_fields_named(variant.fields, info)
                [] variant.fields.shape = "unnamed" ->
                        UnnamedVariantIR_from_fields_unnamed(variant.fields, info)
                [] variant.fields.shape = "unit" -> UnitVariantIR_new(info)
    IN  IF attrs.panicked THEN Panic(attrs.message, ir) ELSE Ok(ir)

VariantIR_has_format(ir) == ir.info.format.some

(***************************************************************************)
(* The match arms.  An arm is the variant's pattern (its bindings, or      *)
(* rest = TRUE for `..`) and its body: a format!(fmt) evaluated with       *)
(* `let variant = <text>` in scope, a String::from(<text>), or a <text>    *)
(* literal.                                                                *)
(***************************************************************************)
UnreachableMessage ==
    <<"any_has_format should never be false when a variant has format string">>

\* ArmBody with the owned arm written from the identifier as declared.
ArmBody_owned_ident(any_has_format, info) ==
    CASE any_has_format /\ info.format.some ->
            [kind |-> "format", variant |-> info.ident_transformed,
             fmt |-> info.format.val]
      [] any_has_format /\ ~info.format.some ->
            [kind |-> "owned", variant |-> info.ident, fmt |-> <<>>]
      [] ~any_has_format /\ ~info.format.some ->
            [kind |-> "borrowed", variant |-> info.ident_transformed, fmt |-> <<>>]
      [] OTHER -> [kind |-> "unreachable", variant |-> <<>>, fmt |-> <<>>]

ArmBody(any_has_format, info) ==
    CASE any_has_format /\ info.format.some ->
            [kind |-> "format", variant |-> info.ident_transformed,
             fmt |-> info.format.val]
      [] any_has_format /\ ~info.format.some ->
            [kind |-> "owned", variant |-> info.ident_transformed, fmt |-> <<>>]
      [] ~any_has_format /\ ~info.format.some ->
            [kind |-> "borrowed", variant |-> info.ident_transformed, fmt |-> <<>>]
      [] OTHER -> [kind |-> "unreachable", variant |-> <<>>, fmt |-> <<>>]

Arm(shape, any_has_format, info, fields) ==
    LET body == ArmBody(any_has_format, info)
        arm == [ident |-> info.ident, shape |-> shape,
                bindings |-> IF body.kind = "format" THEN fields ELSE <<>>,
                rest |-> body.kind # "format" /\ shape # "unit",
                body |-> body]
    IN  IF body.kind = "unreachable" THEN Panic(UnreachableMessage, arm) ELSE Ok(arm)

NamedVariantIR_generate(ir, any_has_format) ==
    Arm("named", any_has_format, ir.info, ir.fields)

UnnamedVariantIR_generate(ir, any_has_format) ==
    Arm("unnamed", any_has_format, ir.info, ir.fields)

UnitVariantIR_generate(ir, any_has_format) ==
    Arm("unit", any_has_format, ir.info, <<>>)

VariantIR_generate(ir, any_has_format) ==
    CASE ir.shape = "named" -> NamedVariantIR_generate(ir, any_has_format)
      [] ir.shape = "unnamed" -> UnnamedVariantIR_generate(ir, any_has_format)
      [] ir.shape = "unit" -> UnitVariantIR_generate(ir, any_has_format)

\* The mode taken from the first variant alone.
AnyHasFormat_first(irs) == irs # <<>> /\ VariantIR_has_format(irs[1])

\* intermediate_variants.iter().any(|v| v.has_format())
AnyHasFormat(irs) == \E i \in 1..Len(irs) : VariantIR_has_format(irs[i])

(***************************************************************************)
(* The emitted implementation: whether the compiler accepts it, and what   *)
(* its fmt writes for a value.                                             *)
(***************************************************************************)
Range(s) == {s[i] : i \in 1..Len(s)}

\* The names an arm's pattern binds, each to the field it is bound to (the
\* position of the field in the variant's declaration).
PatternBinds(arm, variant) ==
    IF arm.shape = "named"
    THEN {[name |-> arm.bindings[k],
           field |-> CHOOSE j \in 1..Len(variant.fields.names) :
                        Name(variant.fields.names[j]) = arm.bindings[k]]
            : k \in {k \in 1..Len(arm.bindings) :
                        \E j \in 1..Len(variant.fields.names) :
                            Name(variant.fields.names[j]) = arm.bindings[k]}}
    ELSE {[name |-> arm.bindings[k], field |-> k] : k \in 1..Len(arm.bindings)}

\* Whether the pattern is one of the variant: without `..` it names every
\* field once (named fields) or has one binding a field (positional fields).
PatternCompiles(arm, variant) ==
    \/ arm.rest
    \/ arm.shape = "unit" /\ variant.fields.shape = "unit"
    \/ /\ arm.shape = "named" /\ variant.fields.shape = "named"
       /\ Len(arm.bindings) = Len(variant.fields.names)
       /\ Range(arm.bindings) = {Name(n) : n \in Range(variant.fields.names)}
    \/ /\ arm.shape = "unnamed" /\ variant.fields.shape = "unnamed"
       /\ Len(arm.bindings) = variant.fields.count
       /\ Cardinality(Range(arm.bindings)) = Len(arm.bindings)

\* The names in scope where the body's format!(fmt) is evaluated.
Scope(arm, variant) ==
    {b.name : b \in PatternBinds(arm, variant)} \cup {<<"variant">>}

BodyCompiles(arm, variant) ==
    \/ arm.body.kind \in {"owned", "borrowed"}
    \/ /\ arm.body.kind = "format"
       /\ LET r == ParseFmt(arm.body.fmt, 1)
          IN  /\ r.ok
              /\ \A k \in 1..Len(r.pieces) :
                    r.pieces[k].kind = "arg" =>
                        /\ IsNamedArg(r.pieces[k])
                        /\ r.pieces[k].name \in Scope(arm, variant)

\* The type of an arm's body: String or &'static str.
IsString(arm) == arm.body.kind \in {"format", "owned"}

\* Whether rustc accepts the implementation: write_str takes a &str, which
\* a String arm yields only through the `.as_str()` of post_fix.
Compiles(out, variants) ==
    /\ Len(out.arms) = Len(variants)
    /\ \A k \in 1..Len(out.arms) :
          /\ PatternCompiles(out.arms[k], variants[k])
          /\ BodyCompiles(out.arms[k], variants[k])
          /\ IsString(out.arms[k]) = out.post_fix

\* Lookup with the pattern's bindings shadowing `let variant`.
Lookup_binding_first(arm, variant, values, name) ==
    IF \E b \in PatternBinds(arm, variant) : b.name = name
    THEN LET b == CHOOSE b \in PatternBinds(arm, variant) : b.name = name
         IN  <<values[b.field]>>
    ELSE arm.body.variant

\* What a name of the scope renders as: `let variant` shadows a binding.
Lookup(arm, variant, values, name) ==
    IF name = <<"variant">> THEN arm.body.variant
    ELSE LET b == CHOOSE b \in PatternBinds(arm, variant) : b.name = name
         IN  <<values[b.field]>>

RECURSIVE RenderPieces(_, _, _, _, _)
RenderPieces(pieces, k, arm, variant, values) ==
    IF k > Len(pieces) THEN <<>>
    ELSE (IF pieces[k].kind = "lit" THEN pieces[k].name
          ELSE Lookup(arm, variant, values, pieces[k].name))
            \o RenderPieces(pieces, k + 1, arm, variant, values)

\* What the arm writes for a value of its variant with the field values.
RenderArm(arm, variant, values) ==
    IF arm.body.kind = "format"
    THEN RenderPieces(ParseFmt(arm.body.fmt, 1).pieces, 1, arm, variant, values)
    ELSE arm.body.variant


(***************************************************************************)
(* The declarations the derive is run on.                                  *)
(*                                                                         *)
(* An annotation is its path, what parse_meta makes of it ("error" when    *)
(* its tokens are no meta item, else "path", "namevalue" or "list") and,   *)
(* for a list, its entries.  An entry is a literal, a key = literal pair,  *)
(* or a path; str tells whether the literal is a string, value is the      *)
(* string.                                                                 *)
(***************************************************************************)
SeqsUpTo(S, n) == UNION {[1..k -> S] : k \in 0..n}

Attribute(path, meta, nested) == [path |-> path, meta |-> meta, nested |-> nested]

Entry(kind, key, str, value) == [kind |-> kind, key |-> key, str |-> str, value |-> value]

Fields(shape, names, count) == [shape |-> shape, names |-> names, count |-> count]

UnitFields == Fields("unit", <<>>, 0)

NamedFields(names) == Fields("named", names, Len(names))

UnnamedFields(count) == Fields("unnamed", <<>>, count)

Variant(ident, attrs, fields) == [ident |-> ident, attrs |-> attrs, fields |-> fields]

Declaration(kind, attrs, variants) == [kind |-> kind, attrs |-> attrs, variants |-> variants]

\* Identifiers: Ab, AbCd, ABc.
Idents == {<<"A", "b">>, <<"A", "b", "C", "d">>, <<"A", "B", "c">>}

\* The values a field is given when a value of the enum is rendered.
FieldValues == {"7", "8"}

\* --- enum-level annotations ---------------------------------------------
EnumEntries ==
    {Entry("namevalue", "case", TRUE, n) : n \in {"Kebab", "Upper", "Bogus", "kebab"}}
        \cup {Entry("namevalue", "case", FALSE, ""),
              Entry("namevalue", "other", TRUE, "Kebab"),
              Entry("lit", "", TRUE, "Kebab"),
              Entry("path", "case", FALSE, "")}

\* One enum_display(...) annotation with up to MaxNested entries.
EnumListAttrs == {Attribute("enum_display", "list", n) : n \in SeqsUpTo(EnumEntries, MaxNested)}

\* Annotations of one entry each, and the ones that are no list.
EnumSmallAttrs ==
    {Attribute("enum_display", "list", <<e>>) : e \in EnumEntries}
        \cup {Attribute("enum_display", "error", <<>>),
              Attribute("enum_display", "path", <<>>),
              Attribute("enum_display", "namevalue", <<>>),
              Attribute("allow", "list", <<Entry("namevalue", "case", TRUE, "Bogus")>>)}

EnumAttrLists ==
    {<<a>> : a \in EnumListAttrs} \cup SeqsUpTo(EnumSmallAttrs, MaxAttrs)

CaseAttr(name) == Attribute("enum_display", "list", <<Entry("namevalue", "case", TRUE, name)>>)

\* --- variant-level annotations ------------------------------------------
DisplayLit(fmt) == Attribute("display", "list", <<Entry("lit", "", TRUE, fmt)>>)

LiteralFormat == <<"x">>

VariantFormat == <<"x", "{", "variant", "}">>

DisplayEntries ==
    {Entry("lit", "", TRUE, f) : f \in {LiteralFormat, VariantFormat}}
        \cup {Entry("namevalue", "format", TRUE, f) : f \in {LiteralFormat, VariantFormat}}
        \cup {Entry("namevalue", "other", TRUE, LiteralFormat),
              Entry("namevalue", "format", FALSE, <<>>),
              Entry("lit", "", FALSE, <<>>),
              Entry("path", "format", FALSE, <<>>)}

DisplayListAttrs == {Attribute("display", "list", n) : n \in SeqsUpTo(DisplayEntries, MaxNested)}

DisplaySmallAttrs ==
    {Attribute("display", "list", <<e>>) : e \in DisplayEntries}
        \cup {Attribute("display", "error", <<>>),
              Attribute("display", "path", <<>>),
              Attribute("display", "namevalue", <<>>),
              Attribute("allow", "list", <<Entry("lit", "", TRUE, LiteralFormat)>>)}

DisplayAttrLists ==
    {<<a>> : a \in DisplayListAttrs} \cup SeqsUpTo(DisplaySmallAttrs, MaxAttrs)

\* --- the declarations ----------------------------------------------------
TheIdent == <<"A", "b", "C", "d">>

\* Rich enum-level annotations on an enum or a struct.
DeclsEnumAttrs(d) ==
    \E k \in {"enum", "struct"}, a \in EnumAttrLists :
        d = Declaration(k, a, IF k = "enum" THEN <<Variant(TheIdent, <<>>, UnitFields)>>
                              ELSE <<>>)

\* Rich display annotations on the one variant of an enum.
DeclsDisplayAttrs(d) ==
    \E a \in DisplayAttrLists, f \in {UnitFields, NamedFields(<<"x">>), UnnamedFields(1)} :
        d = Declaration("enum", <<>>, <<Variant(TheIdent, a, f)>>)

\* Enums of up to MaxVariants variants of every shape, with and without a
\* custom format, under no case selector and under some.
PlainVariants(id) ==
    {Variant(id, <<>>, f)
        : f \in {UnitFields, NamedFields(<<"x", "y">>), UnnamedFields(2)}}

FormattedVariants(id) ==
    {Variant(id, <<DisplayLit(VariantFormat)>>, UnitFields),
     Variant(id, <<DisplayLit(<<"{", "variant", "}", "{", "y", "}">>)>>,
             NamedFields(<<"x", "y">>)),
     Variant(id, <<DisplayLit(<<"{", "1", "}", "{", "variant", "}">>)>>,
             UnnamedFields(2))}

MixedVariantLists ==
    {vs \in SeqsUpTo(UNION {PlainVariants(id) \cup FormattedVariants(id) : id \in Idents},
                     MaxVariants)
        : \A i, j \in 1..Len(vs) : i # j => vs[i].ident # vs[j].ident}

DeclsMixed(d) ==
    \E a \in {<<>>, <<CaseAttr("Kebab")>>, <<CaseAttr("Camel")>>, <<CaseAttr("Alternating")>>},
       vs \in MixedVariantLists :
        d = Declaration("enum", a, vs)

\* One variant with a custom format enumerated atom by atom, up to
\* MaxFmtLen atoms.
FormatsOver(alphabet) == SeqsUpTo(alphabet, MaxFmtLen)

DeclsFormats(d) ==
    \/ \E a \in {<<>>, <<CaseAttr("Kebab")>>},
          fmt \in FormatsOver({"{", "}", "0", "1", "variant"}),
          f \in {UnnamedFields(1), UnnamedFields(2)} :
            d = Declaration("enum", a, <<Variant(TheIdent, <<DisplayLit(fmt)>>, f)>>)
    \/ \E a \in {<<>>, <<CaseAttr("Kebab")>>},
          fmt \in FormatsOver({"{", "}", "x", "variant"}),
          f \in {UnitFields, NamedFields(<<"x">>), NamedFields(<<"x", "variant">>)} :
            d = Declaration("enum", a, <<Variant(TheIdent, <<DisplayLit(fmt)>>, f)>>)

\* The atoms of a raw format string as the regular expression tells them
\* apart: the two braces, a digit, white space, and two that are none of
\* these (the colon that opens a format spec, and a name).
RawAtoms == {"{", "}", "0", " ", ":", "variant"}

\* One variant whose custom format is any text over RawAtoms, up to
\* MaxFmtLen atoms.
DeclsRawFormats(d) ==
    \E fmt \in FormatsOver(RawAtoms), f \in {UnnamedFields(2), NamedFields(<<"x">>)} :
        d = Declaration("enum", <<>>, <<Variant(TheIdent, <<DisplayLit(fmt)>>, f)>>)

(***************************************************************************)
(* derive, step by step, and the emitted fmt.                              *)
(***************************************************************************)
VARIABLES
    decl,                   \* the DeriveInput
    pc,                     \* where derive is
    enum_attrs,             \* EnumAttrs.case_transform
    intermediate_variants,  \* the VariantIR collected so far
    any_has_format,         \* the mode
    any_evals,              \* how many times the mode has been computed
    post_fix,               \* whether `.as_str()` follows the match
    arms,                   \* the arms generated so far
    output,                 \* the emitted implementation
    panic_message,          \* the message derive panicked with
    rendered                \* a value of the enum and what fmt wrote for it

vars == <<decl, pc, enum_attrs, intermediate_variants, any_has_format, any_evals,
          post_fix, arms, output, panic_message, rendered>>

NoOutput == [emitted |-> FALSE, arms |-> <<>>, post_fix |-> FALSE]

NotRendered == [done |-> FALSE, variant |-> 0, values |-> <<>>, text |-> <<>>]

Init ==
    /\ \/ DeclsEnumAttrs(decl)
       \/ DeclsDisplayAttrs(decl)
       \/ DeclsMixed(decl)
       \/ DeclsFormats(decl)
    /\ pc = "enum_attrs"
    /\ enum_attrs = NoCase
    /\ intermediate_variants = <<>>
    /\ any_has_format = FALSE
    /\ any_evals = 0
    /\ post_fix = FALSE
    /\ arms = <<>>
    /\ output = NoOutput
    /\ panic_message = <<>>
    /\ rendered = NotRendered

\* let enum_attrs = EnumAttrs::from_attrs(attrs);
ReadEnumAttrs ==
    /\ pc = "enum_attrs"
    /\ LET r == EnumAttrs_from_attrs(decl.attrs)
       IN  IF r.panicked
           THEN /\ pc' = "panicked"
                /\ panic_message' = r.message
                /\ UNCHANGED enum_attrs
           ELSE /\ pc' = "data"
                /\ enum_attrs' = r.value
                /\ UNCHANGED panic_message
    /\ UNCHANGED <<decl, intermediate_variants, any_has_format, any_evals, post_fix,
                   arms, output, rendered>>

\* The match on data with the struct arm taken for an enum of no variants.
IsEnum_or_struct(data) == data.kind \in {"enum", "struct"}

IsEnum(data) == data.kind = "enum"

\* match data { syn::Data::Enum(..) => variants, _ => panic!(..) }
MatchData ==
    /\ pc = "data"
    /\ IF IsEnum(decl)
       THEN /\ pc' = IF decl.variants = <<>> THEN "mode" ELSE "variants"
            /\ UNCHANGED panic_message
       ELSE /\ pc' = "panicked"
            /\ panic_message' = <<"EnumDisplay can only be derived for enums">>
    /\ UNCHANGED <<decl, enum_attrs, intermediate_variants, any_has_format, any_evals,
                   post_fix, arms, output, rendered>>

\* .map(|variant| VariantIR::from_variant(variant, &enum_attrs)), one variant
FromVariant ==
    /\ pc = "variants"
    /\ LET k == Len(intermediate_variants) + 1
           r == VariantIR_from_variant(decl.variants[k], enum_attrs)
       IN  IF r.panicked
           THEN /\ pc' = "panicked"
                /\ panic_message' = r.message
                /\ UNCHANGED intermediate_variants
           ELSE /\ intermediate_variants' = Append(intermediate_variants, r.value)
                /\ pc' = IF k = Len(decl.variants) THEN "mode" ELSE "variants"
                /\ UNCHANGED panic_message
    /\ UNCHANGED <<decl, enum_attrs, any_has_format, any_evals, post_fix, arms, output,
                   rendered>>

\* let any_has_format = ..; let post_fix = ..;
ResolveMode ==
    /\ pc = "mode"
    /\ any_has_format' = AnyHasFormat(intermediate_variants)
    /\ any_evals' = any_evals + 1
    /\ post_fix' = any_has_format'
    /\ pc' = IF intermediate_variants = <<>> THEN "emit" ELSE "arms"
    /\ UNCHANGED <<decl, enum_attrs, intermediate_variants, arms, output, panic_message,
                   rendered>>

\* .map(|v| v.generate(any_has_format)), one variant
GenerateArm ==
    /\ pc = "arms"
    /\ LET k == Len(arms) + 1
           r == VariantIR_generate(intermediate_variants[k], any_has_format)
       IN  IF r.panicked
           THEN /\ pc' = "panicked"
                /\ panic_message' = r.message
                /\ UNCHANGED arms
           ELSE /\ arms' = Append(arms, r.value)
                /\ pc' = IF k = Len(intermediate_variants) THEN "emit" ELSE "arms"
                /\ UNCHANGED panic_message
    /\ UNCHANGED <<decl, enum_attrs, intermediate_variants, any_has_format, any_evals,
                   post_fix, output, rendered>>

\* let output = quote! { impl .. Display for .. }; output.into()
Emit ==
    /\ pc = "emit"
    /\ output' = [emitted |-> TRUE, arms |-> arms, post_fix |-> post_fix]
    /\ pc' = "done"
    /\ UNCHANGED <<decl, enum_attrs, intermediate_variants, any_has_format, any_evals,
                   post_fix, arms, panic_message, rendered>>

\* The emitted fmt, called on a value of the enum.
Fmt ==
    /\ pc = "done"
    /\ Compiles(output, decl.variants)
    /\ \E v \in 1..Len(decl.variants) :
        \E values \in [1..decl.variants[v].fields.count -> FieldValues] :
            rendered' = [done |-> TRUE, variant |-> v, values |-> values,
                         text |-> RenderArm(output.arms[v], decl.variants[v], values)]
    /\ pc' = "rendered"
    /\ UNCHANGED <<decl, enum_attrs, intermediate_variants, any_has_format, any_evals,
                   post_fix, arms, output, panic_message>>

Next ==
    \/ ReadEnumAttrs
    \/ MatchData
    \/ FromVariant
    \/ ResolveMode
    \/ GenerateArm
    \/ Emit
    \/ Fmt

Spec == Init /\ [][Next]_vars

\* derive up to the intermediate variants, on the declarations whose custom
\* format is raw text: VariantAttrs::from_attrs hands every such format to
\* translate_numeric_placeholders, whatever the host syntax makes of it.
InitRewriter ==
    /\ DeclsRawFormats(decl)
    /\ pc = "enum_attrs"
    /\ enum_attrs = NoCase
    /\ intermediate_variants = <<>>
    /\ any_has_format = FALSE
    /\ any_evals = 0
    /\ post_fix = FALSE
    /\ arms = <<>>
    /\ output = NoOutput
    /\ panic_message = <<>>
    /\ rendered = NotRendered

NextRewriter ==
    \/ ReadEnumAttrs
    \/ MatchData
    \/ FromVariant

SpecRewriter == InitRewriter /\ [][NextRewriter]_vars


(***************************************************************************)
(* What the claims speak of.                                               *)
(***************************************************************************)
\* The entries of the declaration's enum_display(...) lists, in parse order.
RECURSIVE EnumDisplayEntries(_, _)
EnumDisplayEntries(attrs, i) ==
    IF i > Len(attrs) THEN <<>>
    ELSE (IF attrs[i].path = "enum_display" /\ attrs[i].meta = "list"
          THEN attrs[i].nested ELSE <<>>) \o EnumDisplayEntries(attrs, i + 1)

IsCaseEntry(e) == e.kind = "namevalue" /\ e.key = "case" /\ e.str

\* The case = "<name>" entries written on the declaration.
DeclaredCases == SelectSeq(EnumDisplayEntries(decl.attrs, 1), IsCaseEntry)

\* The display text of an identifier under the declaration's one selector,
\* or under none.
DisplayText(ident) ==
    IF DeclaredCases = <<>> THEN ident ELSE ToCase(ident, DeclaredCases[1].value)

\* The variant a value was rendered for, and its configuration.
RenderedVariant == decl.variants[rendered.variant]

RenderedIR == intermediate_variants[rendered.variant]

RenderedArm == output.arms[rendered.variant]

\* C1: a rendered variant with no custom format, of any field shape and with
\* any field values, renders as its identifier when the declaration has no
\* case selector and as convert(identifier, C) when its selector is C.
C1_DefaultText ==
    (rendered.done /\ ~RenderedIR.info.format.some /\ Len(DeclaredCases) <= 1)
        => rendered.text = DisplayText(RenderedVariant.ident)

\* A positional variant with no custom format, rendered with field values
\* under the selector Kebab.
C1_Witness ==
    /\ rendered.done
    /\ ~RenderedIR.info.format.some
    /\ RenderedVariant.fields.shape = "unnamed"
    /\ Len(DeclaredCases) = 1 /\ DeclaredCases[1].value = "Kebab"
    /\ rendered.text = <<"a", "b", "-", "c", "d">>

\* The declaration with every variant's annotations removed, and what derive
\* emits for a declaration it does not panic on.
Stripped(d) ==
    [d EXCEPT !.variants = [k \in 1..Len(d.variants) |->
                                [d.variants[k] EXCEPT !.attrs = <<>>]]]

OutputOf(d) ==
    LET case == EnumAttrs_from_attrs(d.attrs).value
        irs == [k \in 1..Len(d.variants) |->
                    VariantIR_from_variant(d.variants[k], case).value]
        any == AnyHasFormat(irs)
    IN  [emitted |-> TRUE,
         arms |-> [k \in 1..Len(irs) |-> VariantIR_generate(irs[k], any).value],
         post_fix |-> any]

\* C2: a variant with no custom format renders the same text in the enum as
\* declared and in the same enum with no custom format on any variant
\* (which is generated in the borrowed mode); only the arm differs, owned
\* in the one and borrowed in the other.
C2_ModeIndependent ==
    (rendered.done /\ ~RenderedIR.info.format.some)
        => LET plain == OutputOf(Stripped(decl))
           IN  /\ ~plain.post_fix
               /\ plain.arms[rendered.variant].body.kind = "borrowed"
               /\ Compiles(plain, decl.variants)
               /\ rendered.text = RenderArm(plain.arms[rendered.variant],
                                            RenderedVariant, rendered.values)
               /\ RenderedArm.body.kind = IF any_has_format THEN "owned" ELSE "borrowed"

\* A variant with no custom format rendered in the owned mode, under a
\* selector that changes its identifier.
C2_Witness ==
    /\ rendered.done
    /\ ~RenderedIR.info.format.some
    /\ any_has_format
    /\ RenderedArm.body.kind = "owned"
    /\ RenderedVariant.fields.shape = "named"
    /\ rendered.text # RenderedVariant.ident


\* The format a variant is annotated with, for a variant whose one
\* annotation is display(...) with a string first.
HasPlainAnnotation(variant) ==
    /\ Len(variant.attrs) = 1
    /\ variant.attrs[1].path = "display" /\ variant.attrs[1].meta = "list"
    /\ Len(variant.attrs[1].nested) >= 1
    /\ variant.attrs[1].nested[1].kind = "lit" /\ variant.attrs[1].nested[1].str

AnnotatedFormat(variant) == variant.attrs[1].nested[1].value

IsArgPiece(piece) == piece.kind = "arg"

ArgPieces(fmt) == SelectSeq(ParseFmt(fmt, 1).pieces, IsArgPiece)

\* C3: in a positional variant of n fields with a custom format, the name
\* the rewriter gives a placeholder whose index denotes i < n is the binding
\* of field i.
C3_PositionalIndex ==
    \A k \in 1..Len(intermediate_variants) :
        LET variant == decl.variants[k]
            ir == intermediate_variants[k]
        IN  (/\ variant.fields.shape = "unnamed"
             /\ HasPlainAnnotation(variant)
             /\ ParseFmt(AnnotatedFormat(variant), 1).ok)
            => LET written == ArgPieces(AnnotatedFormat(variant))
                   rewritten == ArgPieces(ir.info.format.val)
               IN  \A j \in 1..Len(written) :
                      (/\ IsIndexArg(written[j])
                       /\ DecimalValue(written[j].name) < variant.fields.count)
                      => /\ j <= Len(rewritten)
                         /\ rewritten[j].name = ir.fields[DecimalValue(written[j].name) + 1]

\* What each piece of the rendered arm's format renders as.
RenderedParts ==
    LET pieces == ParseFmt(RenderedArm.body.fmt, 1).pieces
    IN  [k \in 1..Len(pieces) |->
            [piece |-> pieces[k],
             text |-> IF pieces[k].kind = "lit" THEN pieces[k].name
                      ELSE Lookup(RenderedArm, RenderedVariant, rendered.values,
                                  pieces[k].name)]]

\* Whether every brace of a format belongs to a {variant} placeholder.
OnlyVariantPlaceholders(fmt) ==
    \A p \in 1..Len(fmt) :
        /\ fmt[p] = "{" => p + 2 <= Len(fmt) /\ fmt[p + 1] = "variant" /\ fmt[p + 2] = "}"
        /\ fmt[p] = "}" => p > 2 /\ fmt[p - 1] = "variant" /\ fmt[p - 2] = "{"

\* The format with every {variant} replaced by a text.
RECURSIVE ReplaceVariant(_, _, _)
ReplaceVariant(fmt, p, text) ==
    IF p > Len(fmt) THEN <<>>
    ELSE IF fmt[p] = "{" THEN text \o ReplaceVariant(fmt, p + 3, text)
    ELSE <<fmt[p]>> \o ReplaceVariant(fmt, p + 1, text)

\* C4: in a rendered variant with a custom format, of any field shape, every
\* {variant} placeholder renders the variant's display text; and a format
\* whose only placeholders are {variant} renders as the format with each
\* {variant} replaced by that text.
C4_VariantPlaceholder ==
    (rendered.done /\ RenderedIR.info.format.some /\ Len(DeclaredCases) <= 1)
        => /\ \A k \in 1..Len(RenderedParts) :
                RenderedParts[k].piece = Arg(<<"variant">>)
                    => RenderedParts[k].text = DisplayText(RenderedVariant.ident)
           /\ (HasPlainAnnotation(RenderedVariant)
               /\ OnlyVariantPlaceholders(AnnotatedFormat(RenderedVariant)))
                  => rendered.text = ReplaceVariant(AnnotatedFormat(RenderedVariant), 1,
                                                    DisplayText(RenderedVariant.ident))

\* A named variant with a field called variant, rendered through a format
\* with {variant} under the selector Kebab.
C4_Witness ==
    /\ rendered.done
    /\ RenderedIR.info.format.some
    /\ RenderedVariant.fields.shape = "named"
    /\ "variant" \in Range(RenderedVariant.fields.names)
    /\ \E k \in 1..Len(RenderedParts) : RenderedParts[k].piece = Arg(<<"variant">>)
    /\ Len(DeclaredCases) = 1
    /\ rendered.text = <<"x", "a", "b", "-", "c", "d">>

\* The position of a field name among the declared fields.
FieldIndex(variant, f) == CHOOSE j \in 1..Len(variant.fields.names) : variant.fields.names[j] = f

\* Whether a declared field is in scope under its own name in the arm of a
\* named variant with a custom format.
FieldInScope(arm, variant, f) ==
    [name |-> Name(f), field |-> FieldIndex(variant, f)] \in PatternBinds(arm, variant)

\* Whether the {f} placeholders of the rendered format render field f.
FieldRendered(f) ==
    \A k \in 1..Len(RenderedParts) :
        RenderedParts[k].piece = Arg(Name(f))
            => RenderedParts[k].text = <<rendered.values[FieldIndex(RenderedVariant, f)]>>

\* C5 as claimed: every declared field of a named variant with a custom
\* format is in scope under its own name, and {f} renders field f.
C5_EveryField ==
    /\ \A k \in 1..Len(arms) :
          (arms[k].shape = "named" /\ arms[k].body.kind = "format")
              => \A f \in Range(decl.variants[k].fields.names) :
                    FieldInScope(arms[k], decl.variants[k], f)
    /\ (rendered.done /\ RenderedArm.shape = "named" /\ RenderedArm.body.kind = "format")
          => \A f \in Range(RenderedVariant.fields.names) : FieldRendered(f)

\* C5 as amended: the same for every declared field but one named variant,
\* whose name the arm rebinds to the display text.
C5_FieldsButVariant ==
    /\ \A k \in 1..Len(arms) :
          (arms[k].shape = "named" /\ arms[k].body.kind = "format")
              => \A f \in Range(decl.variants[k].fields.names) :
                    FieldInScope(arms[k], decl.variants[k], f)
    /\ (rendered.done /\ RenderedArm.shape = "named" /\ RenderedArm.body.kind = "format")
          => /\ \A f \in Range(RenderedVariant.fields.names) \ {"variant"} : FieldRendered(f)
             /\ \A k \in 1..Len(RenderedParts) :
                    RenderedParts[k].piece = Arg(<<"variant">>)
                        => RenderedParts[k].text = RenderedArm.body.variant

\* A named variant rendered through a format with the placeholder {x}.
C5_Witness ==
    /\ rendered.done
    /\ RenderedArm.shape = "named" /\ RenderedArm.body.kind = "format"
    /\ \E k \in 1..Len(RenderedParts) : RenderedParts[k].piece = Arg(<<"x">>)
    /\ rendered.text = <<"8">>

\* The case entries whose name is none of the case names.
IsBadCaseEntry(e) == IsCaseEntry(e) /\ e.value \notin CaseNames

BadCases == SelectSeq(EnumDisplayEntries(decl.attrs, 1), IsBadCaseEntry)

Contains(message, name) == \E i \in 1..Len(message) : message[i] = name

\* Whether an enum_display annotation that is no meta item comes before the
\* first annotation with a bad case name.
UnparsableBeforeBadCase ==
    \E j \in 1..Len(decl.attrs) :
        /\ decl.attrs[j].path = "enum_display" /\ decl.attrs[j].meta = "error"
        /\ \A i \in 1..Len(decl.attrs) :
              (/\ decl.attrs[i].path = "enum_display" /\ decl.attrs[i].meta = "list"
               /\ \E n \in 1..Len(decl.attrs[i].nested) : IsBadCaseEntry(decl.attrs[i].nested[n]))
              => j < i

\* C6 as claimed: once the enum-level annotations are read, every entry with
\* a bad case name has aborted generation with a message holding that name,
\* and nothing is emitted.
C6_EveryBadName ==
    (pc # "enum_attrs")
        => \A i \in 1..Len(BadCases) :
              /\ pc = "panicked"
              /\ output = NoOutput
              /\ Contains(panic_message, BadCases[i].value)

\* C6 as amended: a bad case name aborts generation and nothing is emitted;
\* the message holds the first bad name in parse order, unless an
\* enum_display annotation before it is no meta item (then reading that
\* annotation is what aborted).
C6_FirstBadName ==
    (pc # "enum_attrs" /\ BadCases # <<>>)
        => /\ pc = "panicked"
           /\ output = NoOutput /\ arms = <<>> /\ intermediate_variants = <<>>
           /\ ~UnparsableBeforeBadCase
                => panic_message = <<"Unrecognized case name: ", BadCases[1].value>>

\* Generation aborted on the second of two entries, the first a good name.
C6_Witness ==
    /\ pc = "panicked"
    /\ Len(DeclaredCases) = 2
    /\ DeclaredCases[1].value = "Kebab"
    /\ DeclaredCases[2].value = "kebab"
    /\ Contains(panic_message, "kebab")

\* Whether a display annotation has one of the two forms: a string literal
\* first in its list, or an entry format = "<string>".
IsAcceptedForm(attr) ==
    /\ attr.path = "display" /\ attr.meta = "list"
    /\ \/ Len(attr.nested) >= 1 /\ attr.nested[1].kind = "lit" /\ attr.nested[1].str
       \/ \E n \in 1..Len(attr.nested) :
            /\ attr.nested[n].kind = "namevalue"
            /\ attr.nested[n].key = "format"
            /\ attr.nested[n].str

\* C7: a variant has a custom format only when one of its display
\* annotations has one of the two forms.
C7_OnlyTwoForms ==
    \A k \in 1..Len(intermediate_variants) :
        intermediate_variants[k].info.format.some
            => \E a \in 1..Len(decl.variants[k].attrs) :
                    IsAcceptedForm(decl.variants[k].attrs[a])

\* C8: no display annotation aborts generation: an enum whose enum-level
\* annotations were read without a panic is never left panicked.
C8_DisplayNeverAborts ==
    (pc = "panicked")
        => \/ ~IsEnum(decl)
           \/ EnumAttrs_from_attrs(decl.attrs).panicked

\* C9: a declaration that is no enum is aborted once its data is matched,
\* and nothing is ever emitted for it, whatever its annotations.
C9_NotAnEnum ==
    (decl.kind # "enum")
        => /\ pc \in {"enum_attrs", "data", "panicked"}
           /\ output = NoOutput
           /\ arms = <<>> /\ intermediate_variants = <<>>

\* A struct with an enum_display selector, aborted by the match on its data.
C9_Witness ==
    /\ decl.kind = "struct"
    /\ pc = "panicked"
    /\ panic_message = <<"EnumDisplay can only be derived for enums">>
    /\ DeclaredCases # <<>>

\* What holds of the mode in every state: it is computed at most once, not
\* before every variant's configuration is built and not after the first
\* arm; once computed it is the OR of "has a custom format" over the
\* variants; every arm is generated under it, none on the unreachable branch.
C10_ModeInvariant ==
    /\ any_evals <= 1
    /\ pc \in {"enum_attrs", "data", "variants", "mode"} => any_evals = 0 /\ arms = <<>>
    /\ arms # <<>> => any_evals = 1
    /\ pc \in {"arms", "emit", "done", "rendered"}
          => /\ any_evals = 1
             /\ Len(intermediate_variants) = Len(decl.variants)
             /\ any_has_format =
                    (\E k \in 1..Len(decl.variants) : intermediate_variants[k].info.format.some)
             /\ post_fix = any_has_format
    /\ \A k \in 1..Len(arms) :
          /\ arms[k].body.kind # "unreachable"
          /\ (arms[k].body.kind = "format") = intermediate_variants[k].info.format.some
          /\ (arms[k].body.kind = "borrowed") = ~any_has_format
    /\ panic_message # UnreachableMessage

\* C10: the mode is computed exactly once, after every variant's
\* configuration is built and before any arm, it is the OR of "has a custom
\* format" over the variants, it reaches every arm unchanged (no step but
\* that computation changes it), and no arm is generated with the mode false
\* and a custom format present.
C10_ModeOnce ==
    []C10_ModeInvariant
        /\ [][any_has_format' # any_has_format => (pc = "mode" /\ any_evals = 0)]_vars

\* Every arm of a two-variant enum generated, the second variant alone with
\* a custom format.
C10_Witness ==
    /\ pc = "emit"
    /\ Len(arms) = 2
    /\ ~intermediate_variants[1].info.format.some
    /\ intermediate_variants[2].info.format.some
    /\ any_has_format
    /\ arms[1].body.kind = "owned"


(***************************************************************************)
(* The placeholder rewriter on raw text.                                   *)
(***************************************************************************)
\* The raw format of the first variant and what the rewriter made of it.
RawFormat == AnnotatedFormat(decl.variants[1])

Rewritten == intermediate_variants[1].info.format.val

HasRewritten ==
    /\ Len(intermediate_variants) >= 1
    /\ HasPlainAnnotation(decl.variants[1])
    /\ intermediate_variants[1].info.format.some

\* A brace-delimited segment whose first token is a decimal integer opens
\* at p: an open brace, a digit first after it, a close brace further on.
NumericAt(s, p) ==
    /\ s[p] = "{"
    /\ SkipSpaces(s, p + 1) <= Len(s)
    /\ IsDigit(s[SkipSpaces(s, p + 1)])
    /\ FindClose(s, p + 1) > 0

NumericSegments(s) == {p \in 1..Len(s) : NumericAt(s, p)}

\* The numeric segments that do not open inside an earlier one.
OuterSegments(s) ==
    {p \in NumericSegments(s) :
        \A q \in NumericSegments(s) : q < p => FindClose(s, q + 1) < p}

\* The white space around the index of an outer segment.
IndexPadding(s) ==
    {i \in 1..Len(s) :
        \E p \in OuterSegments(s) :
            LET a == SkipSpaces(s, p + 1)
                b == SkipDigits(s, a)
                c == SkipSpaces(s, b)
            IN  (p < i /\ i < a) \/ (b <= i /\ i < c)}

\* s without the atoms at the positions D.
RECURSIVE Without(_, _, _)
Without(s, D, i) ==
    IF i > Len(s) THEN <<>>
    ELSE (IF i \in D THEN <<>> ELSE <<s[i]>>) \o Without(s, D, i + 1)

IsUnnamedPrefix(a) == a = "_unnamed_"

Renamed(s) == {q \in 1..Len(s) : IsUnnamedPrefix(s[q])}

\* Every inserted prefix stands between an open brace and a digit, in a
\* segment that is closed.
PrefixesInPlace(s) ==
    \A q \in Renamed(s) :
        /\ q > 1 /\ s[q - 1] = "{"
        /\ q < Len(s) /\ IsDigit(s[q + 1])
        /\ FindClose(s, q) > 0

\* C11 as stated: every numeric segment is renamed, all other text (the
\* format spec included) is unchanged, and no numeric segment remains.
C11_RenamesEverySegment ==
    HasRewritten =>
        /\ PrefixesInPlace(Rewritten)
        /\ Cardinality(Renamed(Rewritten)) = Cardinality(NumericSegments(RawFormat))
        /\ Without(Rewritten, Renamed(Rewritten), 1) = RawFormat
        /\ NumericSegments(Rewritten) = {}

\* C11: the rewriter renames every numeric segment that does not open
\* inside an earlier one to `{_unnamed_<digits><spec>}`, dropping the white
\* space around the index and keeping the format spec and all text outside
\* these segments as written (a format with no numeric segment is returned
\* unchanged); after rewriting, a numeric segment remains only inside the
\* format spec of a renamed segment.
C11_RenamesOuterSegments ==
    HasRewritten =>
        /\ PrefixesInPlace(Rewritten)
        /\ Cardinality(Renamed(Rewritten)) = Cardinality(OuterSegments(RawFormat))
        /\ Without(Rewritten, Renamed(Rewritten), 1)
              = Without(RawFormat, IndexPadding(RawFormat), 1)
        /\ (NumericSegments(RawFormat) = {} => Rewritten = RawFormat)
        /\ \A p \in NumericSegments(Rewritten) :
              \E q \in Renamed(Rewritten) : q < p /\ FindClose(Rewritten, q) > p

\* `{0 :}` has been rewritten.
C11_Witness ==
    /\ HasRewritten
    /\ RawFormat = <<"{", "0", " ", ":", "}">>
    /\ Rewritten = <<"{", "_unnamed_", "0", ":", "}">>


(***************************************************************************)
(* Several case entries.                                                   *)
(***************************************************************************)
LastCase == DeclaredCases[Len(DeclaredCases)]

SeveralCases == pc # "enum_attrs" /\ Len(DeclaredCases) >= 2

UnrecognizedName(message) ==
    Len(message) = 2 /\ message[1] = "Unrecognized case name: "

HasUnparsable ==
    \E j \in 1..Len(decl.attrs) :
        decl.attrs[j].path = "enum_display" /\ decl.attrs[j].meta = "error"

\* C12 as stated: with several case entries the last one is the selector,
\* and the entries before it raise no error: when the last name is a case
\* name, no unrecognized-name error is raised and, unless generation
\* aborted for another reason, the selector is that name.
C12_LastWinsNoError ==
    (SeveralCases /\ LastCase.value \in CaseNames)
        => /\ ~UnrecognizedName(panic_message)
           /\ (panic_message = <<>> => enum_attrs = Some(LastCase.value))

\* C12: with several case entries that all name a case, in annotations
\* that are all well-formed meta items, the selector is the last one in
\* parse order and reading the annotations raises no error (a repeated
\* entry is never an error in itself); an entry that names no case, the
\* last or an earlier one, or an annotation that is no meta item, aborts
\* generation with nothing emitted.
C12_LastRecognizedWins ==
    SeveralCases
        => IF BadCases = <<>> /\ ~HasUnparsable
           THEN /\ enum_attrs = Some(LastCase.value)
                /\ ~UnrecognizedName(panic_message) /\ panic_message # UnwrapMessage
                /\ (rendered.done
                      => rendered.text = ToCase(RenderedVariant.ident, LastCase.value))
           ELSE /\ pc = "panicked" /\ output = NoOutput
                /\ (UnrecognizedName(panic_message) \/ panic_message = UnwrapMessage)
                /\ enum_attrs = NoCase

\* Kebab then Upper, in two annotations: the variant AbCd renders "AB CD".
C12_Witness ==
    /\ rendered.done
    /\ Len(decl.attrs) = 2
    /\ Len(DeclaredCases) = 2
    /\ DeclaredCases[1].value = "Kebab" /\ LastCase.value = "Upper"
    /\ rendered.text = <<"A", "B", " ", "C", "D">>


(***************************************************************************)
(* Literal text of a custom format.                                        *)
(***************************************************************************)
\* C13: when a variant whose custom format the host syntax accepts is
\* rendered, the pieces the host syntax reads as literal text in the format
\* as written (the escaped braces and what lies between them included) are
\* literal pieces of the format the arm is generated with, untouched by the
\* rewriter, and render as written: `{{0}}` renders the text {0}.
C13_LiteralsAsWritten ==
    (/\ rendered.done
     /\ HasPlainAnnotation(RenderedVariant)
     /\ ParseFmt(AnnotatedFormat(RenderedVariant), 1).ok)
        => LET written == ParseFmt(AnnotatedFormat(RenderedVariant), 1).pieces
           IN  /\ RenderedArm.body.kind = "format"
               /\ Len(RenderedParts) = Len(written)
               /\ \A k \in 1..Len(written) :
                     written[k].kind = "lit"
                        => /\ k <= Len(RenderedParts)
                           /\ RenderedParts[k].piece = written[k]
                           /\ RenderedParts[k].text = written[k].name

====
